---- MODULE Spec2Model ----
(***************************************************************************)
(* A model of the two tries of the abbreviation tooling:                   *)
(*   - deft.mine.ContinuousMiner: the online mining trie with its          *)
(*     incremental likelihoods and the table of longforms;                 *)
(*   - adeft.recognize.AdeftRecognizer: the recognition trie built from a  *)
(*     grounding map, and the search in it.                                *)
(* A trie is a function from paths to node payloads.  A path is the tuple  *)
(* of edge tokens from the root, which is what TrieNode.longform holds in  *)
(* the miner; the root is the empty path and carries no payload.           *)
(* Likelihoods are floats in the program.  Here they are exact values      *)
(* pen * log(len(longform)) + num / den, kept as the three integers.       *)
(***************************************************************************)
EXTENDS Integers, Sequences, FiniteSets, Bags, TLC

\* ------------------------------------------------------------------ bounds
\* tokens of a candidate handed to _add
MaxLen == 3
\* candidates handed to _add over the life of a miner
MaxAdds == 3
\* tokens in front of the defining pattern of a sentence
MaxPre == 2
\* sentences holding the defining pattern in one call of consume
MaxSentences == 1
\* candidates that consume hands to _add over the life of a miner
MaxConsumed == 2

\* ------------------------------------------------------------- vocabulary
\* the shortform the miner is built for
MinerShortform == "ER"

\* tokens that word_tokenize produces in front of a defining pattern
PreTokens == {"Receptors", "α", ","}

\* the lower-case tokens of the candidates handed to _add
CandidateTokens == {"receptors", "alpha"}

\* what follows the first defining pattern in a sentence
Posts == {<< >>, <<".">>, <<"(", MinerShortform, ")", ".">>}

\* the exclude sets a miner is built with
ExcludeSets == {{}, {"alpha"}}
\* the exclude sets a recognizer is built with
RecExcludeSets == {{}, {"the"}}

\* ---------------------------------------------------------------- helpers
RECURSIVE SeqsUpTo(_, _)
SeqsUpTo(S, n) ==
    IF n = 0 THEN {<< >>}
    ELSE LET shorter == SeqsUpTo(S, n - 1)
         IN shorter \cup {Append(s, t) : s \in {q \in shorter : Len(q) = n - 1}, t \in S}

\* s[::-1]
Reverse(s) == [i \in 1..Len(s) |-> s[Len(s) + 1 - i]]

\* d[k] = v on a dict
Put(d, k, v) == [x \in (DOMAIN d) \cup {k} |-> IF x = k THEN v ELSE d[x]]

Abs(n) == IF n < 0 THEN 0 - n ELSE n

RECURSIVE GCD(_, _)
GCD(a, b) == IF b = 0 THEN a ELSE GCD(b, a % b)

\* the exact value of a float: pen * log(len(longform)) + num / den
Value(pen, num, den) ==
    LET g == GCD(Abs(num), den)
    IN [pen |-> pen, num |-> num \div g, den |-> den \div g]

\* x + n / d and x - n / d on such values, d > 0
PlusRatio(x, n, d) == Value(x.pen, x.num * d + n * x.den, x.den * d)
MinusRatio(x, n, d) == Value(x.pen, x.num * d - n * x.den, x.den * d)

\* math.log(n) for n >= 1, counted in units of the irrational log(n):
\* log(1) is 0, every other logarithm is one unit
Log(n) == IF n = 1 THEN 0 ELSE 1

\* token in string.punctuation
IsPunctuation(token) == token \in {",", ".", "(", ")"}

\* resources.greek_alphabet
greek_alphabet == ("α" :> "alpha")

\* str.lower
Lower(token) ==
    CASE token = "Receptors" -> "receptors"
      [] OTHER -> token

\* the snowball stemmer, SnowCounter.stem and EnglishStemmer.stem
Stem(token) ==
    CASE token = "receptors" -> "receptor"
      [] token = "factors" -> "factor"
      [] OTHER -> token

\* [self._snow.stem(token) for token in tokens]
StemAll(tokens) == [i \in 1..Len(tokens) |-> Stem(tokens[i])]

\* ------------------------------------------------------------------ state
VARIABLES
    exclude,        \* ContinuousMiner.exclude
    trie,           \* ContinuousMiner._internal_trie: path -> node, root left out
    longforms,      \* ContinuousMiner._longforms: forward longform -> LH
    inserted,       \* history: the bag of the candidates _add has received
    call,           \* the call of the miner in progress, or idle
    built,          \* an AdeftRecognizer has been constructed
    grounding_map,  \* AdeftRecognizer.grounding_map: the items in dict order
    rec_exclude,    \* AdeftRecognizer.exclude
    rec_trie,       \* AdeftRecognizer._trie: path -> node, root left out
    rec_call,       \* the call of the recognizer in progress, or idle
    oneshot         \* the OneShotRecognizer, once its constructor was called

minerVars == <<exclude, trie, longforms, inserted, call>>
recVars == <<built, grounding_map, rec_exclude, rec_trie, rec_call, oneshot>>
vars == <<exclude, trie, longforms, inserted, call,
          built, grounding_map, rec_exclude, rec_trie, rec_call, oneshot>>

\* ------------------------------------------------------- TrieNode (miner)
\* TrieNode.__init__ with the count starting at 0
TrieNode_count_zero(longform) ==
    [count |-> 0, sum_ft |-> 0, sum_ft2 |-> 0,
     LH |-> Value(Log(Len(longform)), 0, 1),
     length_penalty |-> Log(Len(longform))]

\* TrieNode.__init__ for a non-empty longform
TrieNode(longform) ==
    [count |-> 1, sum_ft |-> 0, sum_ft2 |-> 0,
     LH |-> Value(Log(Len(longform)), 0, 1),
     length_penalty |-> Log(Len(longform))]

\* increment_count without its first line
increment_count_LH_only(node) ==
    [node EXCEPT !.LH = Value(@.pen + node.length_penalty, @.num, @.den)]

\* increment_count without its second line
increment_count_count_only(node) == [node EXCEPT !.count = @ + 1]

increment_count(node) ==
    [node EXCEPT !.count = @ + 1,
                 !.LH = Value(@.pen + node.length_penalty, @.num, @.den)]

\* the division of the last line of update_likelihood is by zero
update_raises(node, count) == node.sum_ft2 + 2 * count - 1 = 0

\* update_likelihood with the signs of its two corrections exchanged
update_likelihood_swapped_signs(node, count) ==
    LET lh1 == IF node.sum_ft2 # 0
               THEN MinusRatio(node.LH, node.sum_ft, node.sum_ft2)
               ELSE node.LH
        ft == node.sum_ft + 1
        ft2 == node.sum_ft2 + 2 * count - 1
    IN [node EXCEPT !.sum_ft = ft, !.sum_ft2 = ft2,
                    !.LH = PlusRatio(lh1, ft, ft2)]

\* update_likelihood without its first line
update_likelihood_no_add_back(node, count) ==
    LET ft == node.sum_ft + 1
        ft2 == node.sum_ft2 + 2 * count - 1
    IN [node EXCEPT !.sum_ft = ft, !.sum_ft2 = ft2,
                    !.LH = MinusRatio(node.LH, ft, ft2)]

\* update_likelihood adding count instead of 2 * count - 1
update_likelihood_plain_count(node, count) ==
    LET lh1 == IF node.sum_ft2 # 0
               THEN PlusRatio(node.LH, node.sum_ft, node.sum_ft2)
               ELSE node.LH
        ft == node.sum_ft + 1
        ft2 == node.sum_ft2 + count
    IN [node EXCEPT !.sum_ft = ft, !.sum_ft2 = ft2,
                    !.LH = MinusRatio(lh1, ft, ft2)]

update_likelihood(node, count) ==
    LET lh1 == IF node.sum_ft2 # 0
               THEN PlusRatio(node.LH, node.sum_ft, node.sum_ft2)
               ELSE node.LH
        ft == node.sum_ft + 1
        ft2 == node.sum_ft2 + 2 * count - 1
    IN [node EXCEPT !.sum_ft = ft, !.sum_ft2 = ft2,
                    !.LH = MinusRatio(lh1, ft, ft2)]

\* ------------------------------------------------------------------- _add
\* the loop of _add from the node current on, over the reversed stems left
\* the loop without line 250: the parent's entry of the table is not refreshed
RECURSIVE AddLoop_stale_parent(_, _, _, _)
AddLoop_stale_parent(tr, lf, current, tokens) ==
    IF tokens = << >> THEN [trie |-> tr, longforms |-> lf, raised |-> "no"]
    ELSE
      LET token == Head(tokens)
          child == Append(current, token)
      IN IF child \notin DOMAIN tr
         THEN LET new == TrieNode(child)
              IN AddLoop_stale_parent(Put(tr, child, new), Put(lf, Reverse(child), new.LH),
                                      child, Tail(tokens))
         ELSE LET inc == increment_count(tr[child])
                  tr1 == [tr EXCEPT ![child] = inc]
                  lf1 == Put(lf, Reverse(child), inc.LH)
              IN IF current = << >>
                 THEN AddLoop_stale_parent(tr1, lf1, child, Tail(tokens))
                 ELSE IF update_raises(tr1[current], inc.count)
                 THEN [trie |-> tr1, longforms |-> lf1, raised |-> "ZeroDivisionError"]
                 ELSE LET par == update_likelihood(tr1[current], inc.count)
                      IN AddLoop_stale_parent([tr1 EXCEPT ![current] = par], lf1,
                                              child, Tail(tokens))

RECURSIVE AddLoop(_, _, _, _)
AddLoop(tr, lf, current, tokens) ==
    IF tokens = << >> THEN [trie |-> tr, longforms |-> lf, raised |-> "no"]
    ELSE
      LET token == Head(tokens)
          child == Append(current, token)
      IN IF child \notin DOMAIN tr
         THEN LET new == TrieNode(child)
              IN AddLoop(Put(tr, child, new), Put(lf, Reverse(child), new.LH),
                         child, Tail(tokens))
         ELSE LET inc == increment_count(tr[child])
                  tr1 == [tr EXCEPT ![child] = inc]
                  lf1 == Put(lf, Reverse(child), inc.LH)
              IN IF current = << >>
                 THEN AddLoop(tr1, lf1, child, Tail(tokens))
                 ELSE IF update_raises(tr1[current], inc.count)
                 THEN [trie |-> tr1, longforms |-> lf1, raised |-> "ZeroDivisionError"]
                 ELSE LET par == update_likelihood(tr1[current], inc.count)
                      IN AddLoop([tr1 EXCEPT ![current] = par],
                                 Put(lf1, Reverse(current), par.LH),
                                 child, Tail(tokens))

\* _add without the reversal of the tokens
_add_unreversed(tr, lf, tokens) == AddLoop(tr, lf, << >>, StemAll(tokens))

\* _add(tokens) on a list of tokens
_add(tr, lf, tokens) == AddLoop(tr, lf, << >>, Reverse(StemAll(tokens)))

\* -------------------------------------------------------- _get_candidates
None == [none |-> TRUE]
Some(candidate) == [none |-> FALSE, candidate |-> candidate]

\* no call of the miner in progress
Idle ==
    [op |-> "idle", sentences |-> << >>, candidates |-> << >>, raised |-> "no",
     limit |-> None, result |-> << >>]

\* the indices (from 0) at which the loop of _get_candidates finds the pattern
PatternIndices(tokens, shortform) ==
    {index \in 0..(Len(tokens) - 4) :
        /\ tokens[index + 1] = "("
        /\ tokens[index + 2] = shortform
        /\ tokens[index + 3] = ")"}

Min(S) == CHOOSE m \in S : \A n \in S : m <= n

\* the while loop: the last index (from 1) holding an excluded token, or 0
RECURSIVE LastExcluded(_, _, _)
LastExcluded(candidate, i, excl) ==
    IF i >= 1 /\ candidate[i] \notin excl
    THEN LastExcluded(candidate, i - 1, excl)
    ELSE i

Greek(token) == IF token \in DOMAIN greek_alphabet THEN greek_alphabet[token] ELSE token
NotPunctuation(token) == ~IsPunctuation(token)
\* the loop over enumerate(candidate)
GreekAll(tokens) == [i \in 1..Len(tokens) |-> Greek(tokens[i])]
\* [token.lower() for token in candidate]
LowerAll(tokens) == [i \in 1..Len(tokens) |-> Lower(tokens[i])]

Normalize_from_stop(tokens, excl) ==
    LET candidate == LowerAll(GreekAll(SelectSeq(tokens, NotPunctuation)))
        i == LastExcluded(candidate, Len(candidate), excl)
    IN SubSeq(candidate, IF i = 0 THEN 1 ELSE i, Len(candidate))
\* the body run on the tokens in front of the pattern
Normalize(tokens, excl) ==
    LET candidate == LowerAll(GreekAll(SelectSeq(tokens, NotPunctuation)))
        i == LastExcluded(candidate, Len(candidate), excl)
    IN SubSeq(candidate, i + 1, Len(candidate))

_get_candidates(tokens, shortform, excl) ==
    LET found == PatternIndices(tokens, shortform)
    IN IF found = {} THEN None
       ELSE Some(Normalize(SubSeq(tokens, 1, Min(found)), excl))

\* adeft.util.get_candidate: the shared candidate extraction on a fragment
get_candidate(fragment, excl) == Normalize(fragment, excl)

\* ---------------------------------------------------------------- consume
\* the loop over the candidates: _add(None) raises TypeError
RECURSIVE AddAll(_, _, _, _)
AddAll(tr, lf, hist, candidates) ==
    IF candidates = << >>
    THEN [trie |-> tr, longforms |-> lf, inserted |-> hist, raised |-> "no"]
    ELSE IF Head(candidates).none
    THEN [trie |-> tr, longforms |-> lf, inserted |-> hist, raised |-> "TypeError"]
    ELSE LET r == _add(tr, lf, Head(candidates).candidate)
         IN IF r.raised # "no"
            THEN [trie |-> r.trie, longforms |-> r.longforms,
                  inserted |-> hist (+) SetToBag({Head(candidates).candidate}),
                  raised |-> r.raised]
            ELSE AddAll(r.trie, r.longforms,
                        hist (+) SetToBag({Head(candidates).candidate}),
                        Tail(candidates))

\* the tokenized sentences that hold the defining pattern
Sentences ==
    {pre \o <<"(", MinerShortform, ")">> \o post :
        pre \in SeqsUpTo(PreTokens, MaxPre), post \in Posts}

\* the lists of n such sentences that one call of consume extracts
SentenceLists ==
    [n \in 1..MaxSentences |-> {s \in SeqsUpTo(Sentences, MaxSentences) : Len(s) = n}]

consume(sentences) ==
    /\ LET candidates == [i \in 1..Len(sentences) |->
                             _get_candidates(sentences[i], MinerShortform, exclude)]
           r == AddAll(trie, longforms, inserted, candidates)
       IN /\ trie' = r.trie
          /\ longforms' = r.longforms
          /\ inserted' = r.inserted
          /\ call' = [Idle EXCEPT !.op = "consume", !.sentences = sentences,
                                   !.candidates = candidates, !.raised = r.raised]
    /\ UNCHANGED exclude
    /\ UNCHANGED recVars

\* a call of consume, while the miner has room for its candidates
Consume ==
    /\ call.op = "idle"
    /\ \E n \in 1..MaxSentences :
          /\ BagCardinality(inserted) + n <= MaxConsumed
          /\ \E sentences \in SentenceLists[n] : consume(sentences)

\* the candidates handed to _add
Candidates == SeqsUpTo(CandidateTokens, MaxLen)

\* a call of _add on a list of tokens
add(tokens) ==
    /\ LET r == _add(trie, longforms, tokens)
       IN /\ trie' = r.trie
          /\ longforms' = r.longforms
          /\ inserted' = inserted (+) SetToBag({tokens})
          /\ call' = [Idle EXCEPT !.op = "_add", !.candidates = <<Some(tokens)>>,
                                   !.raised = r.raised]
    /\ UNCHANGED exclude
    /\ UNCHANGED recVars

\* a call of _add, while the miner has room for its candidate
Add ==
    /\ call.op = "idle"
    /\ BagCardinality(inserted) < MaxAdds
    /\ \E tokens \in Candidates : add(tokens)

\* ------------------------------------------------------------------- top
\* the largest limit handed to top
MaxLimit == 2

\* top(limit=None) and top(limit=n)
Limit(n) == [none |-> FALSE, limit |-> n]
Limits == {None} \cup {Limit(n) : n \in 0..MaxLimit}

\* math.log(n) from below and from above, in units of 1 / LogScale
LogScale == 10000
LogLow(n) ==
    CASE n = 1 -> 0
      [] n = 2 -> 6931
      [] n = 3 -> 10986
      [] n = 5 -> 16094
LogHigh(n) ==
    CASE n = 1 -> 0
      [] n = 2 -> 6932
      [] n = 3 -> 10987
      [] n = 5 -> 16095

\* pen * log(len) as a multiple of the logarithm of a prime
LogUnits(len, pen) ==
    CASE pen = 0 \/ len = 1 -> [base |-> 1, units |-> 0]
      [] len = 4 -> [base |-> 2, units |-> 2 * pen]
      [] OTHER -> [base |-> len, units |-> pen]

\* c * log(base) from below and from above, in units of 1 / LogScale
TermLow(c, base) == IF c >= 0 THEN c * LogLow(base) ELSE c * LogHigh(base)
TermHigh(c, base) == IF c >= 0 THEN c * LogHigh(base) ELSE c * LogLow(base)

Sign(n) == IF n > 0 THEN 1 ELSE IF n < 0 THEN 0 - 1 ELSE 0

\* the comparison of two likelihoods: the sign of x - y, for the LH x of a
\* longform of lenx tokens and the LH y of one of leny tokens.  Logarithms
\* of different primes and a ratio never cancel, so the bounds decide.
Compare(lenx, x, leny, y) ==
    LET a == LogUnits(lenx, x.pen)
        b == LogUnits(leny, y.pen)
        c1 == IF a.base = b.base THEN a.units - b.units ELSE a.units
        c2 == IF a.base = b.base THEN 0 ELSE 0 - b.units
        ratio == x.num * y.den - y.num * x.den
        dd == x.den * y.den
        low == dd * (TermLow(c1, a.base) + TermLow(c2, b.base)) + LogScale * ratio
        high == dd * (TermHigh(c1, a.base) + TermHigh(c2, b.base)) + LogScale * ratio
    IN IF c1 = 0 /\ c2 = 0 THEN Sign(ratio)
       ELSE IF low > 0 THEN 1
       ELSE IF high < 0 THEN 0 - 1
       ELSE CHOOSE undecided \in {} : TRUE

ComesFirst_ascending(lf, k, keys) ==
    \A other \in keys : Compare(Len(other), lf[other], Len(k), lf[k]) >= 0
\* key=lambda x: x[1], reverse=True: the item of k can come first among
\* those of keys, as none of them has a greater LH
ComesFirst(lf, k, keys) ==
    \A other \in keys : Compare(Len(other), lf[other], Len(k), lf[k]) <= 0

\* sorted(self._longforms.items(), ...): the sort is stable, so that items
\* of equal LH come out in the order of the dict, which is the order in
\* which the keys were first observed.  That order is not part of the
\* state here: every order of the items of equal LH is taken.
RECURSIVE Sorted(_, _)
Sorted(lf, keys) ==
    IF keys = {} THEN {<< >>}
    ELSE UNION {{<<<<k, lf[k]>>>> \o rest : rest \in Sorted(lf, keys \ {k})} :
                   k \in {first \in keys : ComesFirst(lf, first, keys)}}

\* SnowCounter.most_frequent: the word seen most often for a stem
most_frequent(stem) ==
    CASE stem = "receptor" -> "receptors"
      [] OTHER -> stem

\* ' '.join(self._snow.most_frequent(token) for token in longform), kept
\* as the tuple of the words
Readable(longform) == [i \in 1..Len(longform) |-> most_frequent(longform[i])]

\* ContinuousMiner.top, given the outcome of sorted()
top(lf, limit, sorted) ==
    IF DOMAIN lf = {} THEN << >>
    ELSE LET candidates == IF ~limit.none /\ limit.limit < Len(sorted)
                           THEN SubSeq(sorted, 1, limit.limit)
                           ELSE sorted
         IN [i \in 1..Len(candidates) |->
                <<Readable(candidates[i][1]), candidates[i][2]>>]

\* a call of top
Top ==
    /\ call.op = "idle"
    /\ \E limit \in Limits, sorted \in Sorted(longforms, DOMAIN longforms) :
          call' = [Idle EXCEPT !.op = "top", !.limit = limit,
                               !.result = top(longforms, limit, sorted)]
    /\ UNCHANGED <<exclude, trie, longforms, inserted>>
    /\ UNCHANGED recVars

\* the call returns, or its exception has reached the caller
Return ==
    /\ call.op # "idle"
    /\ call' = Idle
    /\ UNCHANGED <<exclude, trie, longforms, inserted>>
    /\ UNCHANGED recVars

\* ============================================================ recognizer
\* ------------------------------------------------------------------ bounds
\* entries of a grounding map
MaxMap == 3
\* tokens handed to _search
MaxTokens == 4
\* fragments that get_candidate_fragments finds in one text
MaxFragments == 1
\* tokens of a fragment in front of the phrase next to the shortform
MaxContext == 1

\* ------------------------------------------------------------- vocabulary
\* adeft.nlp.tokenize on the longform texts, the tokens without their spans
tokenize ==
    [text \in {"nuclear factor kappa b", "factor kappa b", "factors kappa b",
               "kappa ± b"} |->
        CASE text = "nuclear factor kappa b" -> <<"nuclear", "factor", "kappa", "b">>
          [] text = "factor kappa b" -> <<"factor", "kappa", "b">>
          [] text = "factors kappa b" -> <<"factors", "kappa", "b">>
          [] text = "kappa ± b" -> <<"kappa", "±", "b">>]

\* the longform texts of the maps of a recognizer that searches
LongformTexts == {"nuclear factor kappa b", "factor kappa b", "factors kappa b"}

\* the grounding each longform text is given in the maps
Grounded ==
    [text \in DOMAIN tokenize |->
        CASE text = "nuclear factor kappa b" -> "G1"
          [] text = "factor kappa b" -> "G2"
          [] text = "factors kappa b" -> "G2"
          [] text = "kappa ± b" -> "G3"]
SearchTokens == {"nuclear", "factor", "factors", "kappa", "b"}
ContextTokens == {"the", ",", "Receptors"}

\* the grounding maps: lists of items with distinct keys
GroundingMaps ==
    {gm \in SeqsUpTo({<<text, Grounded[text]>> : text \in LongformTexts}, MaxMap) :
        \A i, j \in 1..Len(gm) : gm[i][1] = gm[j][1] => i = j}

Keys(gm) == {gm[i][1] : i \in 1..Len(gm)}
Values(gm) == {gm[i][2] : i \in 1..Len(gm)}
\* grounding_map[longform]
Lookup(gm, longform) == (CHOOSE i \in 1..Len(gm) : gm[i][1] = longform)

\* the fragments in front of a shortform: empty, or a phrase behind a context
Fragments ==
    {<< >>} \cup
    {context \o phrase :
        context \in SeqsUpTo(ContextTokens, MaxContext),
        phrase \in {tokenize[t] : t \in LongformTexts} \cup {<<"kappa", "b">>}}

FragmentLists == SeqsUpTo(Fragments, MaxFragments) \ {<< >>}
TokenLists == SeqsUpTo(SearchTokens, MaxTokens)

RecIdle == [op |-> "idle", tokens |-> << >>, fragments |-> << >>,
            searched |-> << >>, result |-> None, expansions |-> {},
            raised |-> "no", strips |-> << >>]

\* ------------------------------------------------------------- _TrieNode
Longform(text) == [none |-> FALSE, longform |-> text]
_TrieNode(longform) == [longform |-> longform]

\* ------------------------------------------------------------ _init_trie
\* the inner loop over enumerate(edges), index counted from 1
RECURSIVE InsertEdges(_, _, _, _, _)
InsertEdges(root, current, edges, index, longform) ==
    IF index > Len(edges) THEN root
    ELSE LET child == Append(current, edges[index])
         IN IF child \notin DOMAIN root
            THEN LET new == IF index = Len(edges)
                            THEN _TrieNode(Longform(longform))
                            ELSE _TrieNode(None)
                 IN InsertEdges(Put(root, child, new), child, edges, index + 1, longform)
            ELSE InsertEdges(root, child, edges, index + 1, longform)

\* the outer loop over grounding_map.items()
RECURSIVE InitLoop(_, _)
InitLoop(root, items) ==
    IF items = << >> THEN root
    ELSE LET longform == Head(items)[1]
             edges == Reverse(StemAll(tokenize[longform]))
         IN InitLoop(InsertEdges(root, << >>, edges, 1, longform), Tail(items))

_init_trie(gm) == InitLoop(<< >>, gm)

\* ---------------------------------------------------------------- _search
\* a search that goes on to the deepest stored longform of the path
RECURSIVE SearchLoop_longest(_, _, _)
SearchLoop_longest(root, current, stems) ==
    IF stems = << >> THEN None
    ELSE LET child == Append(current, Head(stems))
         IN IF child \notin DOMAIN root THEN None
            ELSE LET deeper == SearchLoop_longest(root, child, Tail(stems))
                 IN IF deeper # None THEN deeper ELSE root[child].longform

RECURSIVE SearchLoop(_, _, _)
SearchLoop(root, current, stems) ==
    IF stems = << >> THEN None
    ELSE LET child == Append(current, Head(stems))
         IN IF child \notin DOMAIN root THEN None
            ELSE IF root[child].longform = None
            THEN SearchLoop(root, child, Tail(stems))
            ELSE root[child].longform

_search(root, tokens) == SearchLoop(root, << >>, StemAll(Reverse(tokens)))

_post_process_identity(gm, longform) == longform
\* AdeftRecognizer._post_process
_post_process(gm, longform) == gm[Lookup(gm, longform)][2]

\* -------------------------------------------------------------- recognize
\* the loop over the fragments
RECURSIVE RecognizeLoop(_, _, _, _)
RecognizeLoop(root, gm, excl, fragments) ==
    IF fragments = << >> THEN {}
    ELSE LET rest == RecognizeLoop(root, gm, excl, Tail(fragments))
             fragment == Head(fragments)
         IN IF fragment = << >> THEN rest
            ELSE LET longform == _search(root, get_candidate(fragment, excl))
                 IN IF longform = None THEN rest
                    ELSE {_post_process(gm, longform.longform)} \cup rest

\* ---------------------------------------------------------------- actions
\* AdeftRecognizer.__init__
construct(gm, excl) ==
    /\ built' = TRUE
    /\ grounding_map' = gm
    /\ rec_exclude' = excl
    /\ rec_trie' = _init_trie(gm)
    /\ UNCHANGED <<rec_call, oneshot>>
    /\ UNCHANGED minerVars

search(tokens) ==
    /\ rec_call' = [RecIdle EXCEPT !.op = "_search", !.tokens = tokens,
                                   !.result = _search(rec_trie, tokens)]
    /\ UNCHANGED <<built, grounding_map, rec_exclude, rec_trie, oneshot>>
    /\ UNCHANGED minerVars

recognize(fragments) ==
    /\ rec_call' = [RecIdle EXCEPT
                      !.op = "recognize", !.fragments = fragments,
                      !.searched = [i \in 1..Len(fragments) |->
                                       get_candidate(fragments[i], rec_exclude)],
                      !.expansions = RecognizeLoop(rec_trie, grounding_map,
                                                   rec_exclude, fragments)]
    /\ UNCHANGED <<built, grounding_map, rec_exclude, rec_trie, oneshot>>
    /\ UNCHANGED minerVars

\* the construction of the recognizer
Construct ==
    /\ ~built
    /\ \E gm \in GroundingMaps, excl \in RecExcludeSets : construct(gm, excl)

\* a call of _search on a list of tokens
Search ==
    /\ built
    /\ rec_call.op = "idle"
    /\ \E tokens \in TokenLists : search(tokens)

\* a call of recognize on a text with these fragments
Recognize ==
    /\ built
    /\ rec_call.op = "idle"
    /\ \E fragments \in FragmentLists : recognize(fragments)

RecReturn ==
    /\ rec_call.op # "idle"
    /\ rec_call' = RecIdle
    /\ UNCHANGED <<built, grounding_map, rec_exclude, rec_trie, oneshot>>
    /\ UNCHANGED minerVars

NextRec ==
    \/ Construct
    \/ Search
    \/ Recognize
    \/ RecReturn

\* ------------------------------------------------ strip_defining_patterns
\* entries of the grounding map of a recognizer that strips
MaxStripMap == 2

\* the words the walk counts at most: `if i > 100: break`
WalkLimit == 100

\* the longform texts of the maps of a recognizer that strips; the words
\* of the last one are set apart by a sign that is neither in
\* string.punctuation nor a word character
StripTexts == {"nuclear factor kappa b", "factor kappa b", "kappa ± b"}

\* the exclude sets a recognizer that strips is built with
StripExcludeSets == {{}, {"the"}, {"kappa"}}

StripMaps ==
    {gm \in SeqsUpTo({<<text, Grounded[text]>> : text \in StripTexts}, MaxStripMap) :
        \A i, j \in 1..Len(gm) : gm[i][1] = gm[j][1] => i = j}

\* the fragments of a text: empty, or a phrase behind a context, with
\* punctuation in the phrase or not
StripFragments ==
    {<< >>} \cup
    {context \o phrase :
        context \in SeqsUpTo({"the", ","}, MaxContext),
        phrase \in {tokenize[t] : t \in StripTexts}
                   \cup {<<"kappa", "b">>, <<"factor", ",", "kappa", "b">>}}

StripFragmentLists == SeqsUpTo(StripFragments, MaxFragments) \ {<< >>}

\* longform.split()
split ==
    [text \in DOMAIN tokenize |->
        CASE text = "nuclear factor kappa b" -> <<"nuclear", "factor", "kappa", "b">>
          [] text = "factor kappa b" -> <<"factor", "kappa", "b">>
          [] text = "factors kappa b" -> <<"factors", "kappa", "b">>
          [] text = "kappa ± b" -> <<"kappa", "±", "b">>]

\* re.match(r'\w+', token)
IsWord(token) == token \notin {",", ".", "(", ")", "±"}

\* tokens[j] for an index from 0, a negative one counting from the end
Item(tokens, j) == tokens[(IF j >= 0 THEN j ELSE j + Len(tokens)) + 1]

\* tokens[:k]
Slice(tokens, k) ==
    LET end == IF k >= 0 THEN k ELSE k + Len(tokens)
    IN SubSeq(tokens, 1, IF end > Len(tokens) THEN Len(tokens)
                         ELSE IF end < 0 THEN 0 ELSE end)

\* the while loop of strip_defining_patterns, entered with i and j
RECURSIVE Walk(_, _, _, _)
Walk(tokens, num_words, i, j) ==
    IF ~(i < num_words) THEN [j |-> j, raised |-> "no"]
    ELSE IF j >= Len(tokens) \/ j < 0 - Len(tokens)
    THEN [j |-> j, raised |-> "IndexError"]
    ELSE LET counted == IF IsWord(Item(tokens, j)) THEN i + 1 ELSE i
         IN IF counted > WalkLimit
            THEN [j |-> j - 1, raised |-> "no"]
            ELSE Walk(tokens, num_words, counted, j - 1)

\* the body of the loop over the fragments, on the tokens of one fragment:
\* the longform found, the j the walk ends with, and the tokens that
\* replace the fragment in the text
strip_fragment(root, tokens) ==
    LET longform == _search(root, SelectSeq(tokens, NotPunctuation))
    IN IF longform = None
       THEN [longform |-> None, j |-> Len(tokens) - 1, raised |-> "no",
             kept |-> tokens]
       ELSE LET w == Walk(tokens, Len(split[longform.longform]), 0, Len(tokens) - 1)
            IN [longform |-> longform, j |-> w.j, raised |-> w.raised,
                kept |-> IF w.raised = "no" THEN Slice(tokens, w.j + 1) ELSE tokens]

\* the loop over the fragments, up to the first one that raises
RECURSIVE StripLoop(_, _)
StripLoop(root, fragments) ==
    IF fragments = << >> THEN << >>
    ELSE LET first == strip_fragment(root, Head(fragments))
         IN IF first.raised # "no" THEN <<first>>
            ELSE <<first>> \o StripLoop(root, Tail(fragments))

strip_defining_patterns(fragments) ==
    /\ LET strips == StripLoop(rec_trie, fragments)
       IN rec_call' = [RecIdle EXCEPT
                         !.op = "strip_defining_patterns",
                         !.fragments = fragments,
                         !.searched = [i \in 1..Len(strips) |->
                                          SelectSeq(fragments[i], NotPunctuation)],
                         !.strips = strips,
                         !.raised = strips[Len(strips)].raised]
    /\ UNCHANGED <<built, grounding_map, rec_exclude, rec_trie, oneshot>>
    /\ UNCHANGED minerVars

\* the construction of a recognizer that strips
ConstructStrip ==
    /\ ~built
    /\ \E gm \in StripMaps, excl \in StripExcludeSets : construct(gm, excl)

\* a call of strip_defining_patterns on a text with these fragments
Strip ==
    /\ built
    /\ rec_call.op = "idle"
    /\ \E fragments \in StripFragmentLists : strip_defining_patterns(fragments)

NextStrip ==
    \/ ConstructStrip
    \/ Strip
    \/ RecReturn

\* ------------------------------------------------------ OneShotRecognizer
\* no OneShotRecognizer: its constructor has not been called
NoOneShot ==
    [called |-> FALSE, imported |-> FALSE, raised |-> "no", logged |-> FALSE,
     returned |-> FALSE, scorer |-> FALSE]

\* OneShotRecognizer.__init__, in a process in which the import of
\* AdeftLongformScorer at the load of the module succeeded or failed: the
\* ImportError was logged there and the name is left unbound.  The
\* NameError of the unbound name is caught and logged, and the constructor
\* goes on to BaseRecognizer.__init__ without self.scorer.
OneShotRecognizer(imported) ==
    [called |-> TRUE, imported |-> imported, raised |-> "no",
     logged |-> ~imported, returned |-> TRUE, scorer |-> imported]

\* AdeftLongformScorer.score: the candidates of the tokens, the best one
\* first; a candidate is a suffix of the tokens
score(tokens) == {SubSeq(tokens, k, Len(tokens)) : k \in 1..(Len(tokens) + 1)}

\* OneShotRecognizer._search with best as self.scorer.score(tokens)[0]
oneshot_search(tokens, best) ==
    /\ rec_call' = IF oneshot.scorer
                   THEN [RecIdle EXCEPT !.op = "OneShotRecognizer._search",
                                        !.tokens = tokens, !.searched = <<best>>]
                   ELSE [RecIdle EXCEPT !.op = "OneShotRecognizer._search",
                                        !.tokens = tokens,
                                        !.raised = "AttributeError"]
    /\ UNCHANGED <<built, grounding_map, rec_exclude, rec_trie, oneshot>>
    /\ UNCHANGED minerVars

\* the construction of the one-shot recognizer
ConstructOneShot ==
    /\ ~oneshot.called
    /\ \E imported \in BOOLEAN : oneshot' = OneShotRecognizer(imported)
    /\ UNCHANGED <<built, grounding_map, rec_exclude, rec_trie, rec_call>>
    /\ UNCHANGED minerVars

\* a call of _search on the one-shot recognizer that was returned
OneShotSearch ==
    /\ oneshot.returned
    /\ rec_call.op = "idle"
    /\ \E tokens \in TokenLists :
          \E best \in (IF oneshot.scorer THEN score(tokens) ELSE {<< >>}) :
              oneshot_search(tokens, best)

NextOneShot ==
    \/ ConstructOneShot
    \/ OneShotSearch
    \/ RecReturn

Init ==
    /\ exclude \in ExcludeSets
    /\ trie = << >>
    /\ longforms = << >>
    /\ inserted = EmptyBag
    /\ call = Idle
    /\ built = FALSE
    /\ grounding_map = << >>
    /\ rec_exclude = {}
    /\ rec_trie = << >>
    /\ rec_call = RecIdle
    /\ oneshot = NoOneShot

Next ==
    \/ Consume
    \/ Top
    \/ Return

\* a miner fed through consume
Spec == Init /\ [][Next]_vars

\* a miner with the default exclude set, fed through _add
InitAdd == Init /\ exclude = {}
NextAdd ==
    \/ Add
    \/ Return
SpecAdd == InitAdd /\ [][NextAdd]_vars

\* a recognizer
InitRec == Init /\ exclude = {}
SpecRec == InitRec /\ [][NextRec]_vars

\* a recognizer that strips the defining patterns of texts
SpecStrip == InitRec /\ [][NextStrip]_vars

\* a one-shot recognizer
SpecOneShot == InitRec /\ [][NextOneShot]_vars
\* ================================================================= claims
\* the path of a candidate in the mining trie: its stems, reversed
Path(candidate) == Reverse(StemAll(candidate))
\* the non-empty prefixes of a path
Prefixes(path) == {SubSeq(path, 1, k) : k \in 1..Len(path)}

\* C1: every node of the mining trie has LH = count * penalty - D, where
\* penalty is its cached log(len(longform)) and D is sum_ft / sum_ft2 when
\* sum_ft2 is not zero and 0 otherwise.
C1_LikelihoodInvariant ==
    \A p \in DOMAIN trie :
        LET node == trie[p]
        IN /\ node.length_penalty = Log(Len(p))
           /\ node.LH.pen = node.count * node.length_penalty
           /\ node.LH.den > 0
           /\ IF node.sum_ft2 # 0
              THEN node.LH.num * node.sum_ft2 = (0 - node.sum_ft) * node.LH.den
              ELSE node.LH.num = 0

\* a parent of length two or more whose dispersion has been updated twice
C1_Witness ==
    \E p \in DOMAIN trie :
        /\ Len(p) >= 2
        /\ trie[p].sum_ft >= 2
        /\ trie[p].LH.num # 0

\* C2: every suffix of every inserted candidate is a node of the mining
\* trie, and no step removes a node.
C2_SuffixesPresent ==
    \A candidate \in BagToSet(inserted) : Prefixes(Path(candidate)) \subseteq DOMAIN trie

C2_SuffixProperty ==
    /\ []C2_SuffixesPresent
    /\ [][DOMAIN trie \subseteq DOMAIN trie']_vars

\* two candidates of two tokens with different tokens next to the shortform
C2_Witness ==
    \E c1, c2 \in BagToSet(inserted) :
        /\ Len(c1) = 2
        /\ Len(c2) = 2
        /\ Path(c1)[1] # Path(c2)[1]
        /\ Cardinality(DOMAIN trie) >= 4

\* C3: the table of longforms has exactly the forward longforms of the
\* nodes as keys, each with the current LH of its node, and every inserted
\* candidate and suffix of one is among the keys.
C3_TableMirrorsTrie ==
    /\ DOMAIN longforms = {Reverse(p) : p \in DOMAIN trie}
    /\ \A p \in DOMAIN trie : longforms[Reverse(p)] = trie[p].LH
    /\ \A candidate \in BagToSet(inserted) :
          \A k \in 1..Len(candidate) :
              StemAll(SubSeq(candidate, k, Len(candidate))) \in DOMAIN longforms

\* a node whose LH has gone through increment_count and update_likelihood
C3_Witness ==
    \E p \in DOMAIN trie :
        /\ trie[p].sum_ft2 # 0
        /\ trie[p].count >= 2
        /\ Len(p) >= 2
        /\ longforms[Reverse(p)].num # 0

\* the depths on the path of the tokens at which the trie stores a longform
StoredDepths(root, tokens) ==
    LET path == StemAll(Reverse(tokens))
    IN {k \in 1..Len(path) :
           /\ SubSeq(path, 1, k) \in DOMAIN root
           /\ root[SubSeq(path, 1, k)].longform # None}

\* C4: _search returns the longform stored at the first node with a
\* longform on the path of the reversed stemmed tokens, also when a longer
\* longform is stored further along, and nothing when there is none.
C4_FirstLeafWins ==
    rec_call.op = "_search" =>
        LET depths == StoredDepths(rec_trie, rec_call.tokens)
            path == StemAll(Reverse(rec_call.tokens))
        IN IF depths = {} THEN rec_call.result = None
           ELSE rec_call.result = rec_trie[SubSeq(path, 1, Min(depths))].longform

\* a search whose path holds two stored longforms, the nearer one returned
C4_Witness ==
    /\ rec_call.op = "_search"
    /\ Cardinality(StoredDepths(rec_trie, rec_call.tokens)) >= 2
    /\ rec_call.result = Longform("factor kappa b")

EndsWith(s, t) == Len(s) >= Len(t) /\ SubSeq(s, Len(s) - Len(t) + 1, Len(s)) = t

\* C5: with the map of "nuclear factor kappa b" -> G1 and "factor kappa b"
\* -> G2, in either order, recognize returns {G1} on a text in which
\* "nuclear factor kappa b" is directly in front of the shortform.
C5_LeafPrecedence ==
    ( /\ rec_call.op = "recognize"
      /\ Len(grounding_map) = 2
      /\ Keys(grounding_map) = {"nuclear factor kappa b", "factor kappa b"}
      /\ \A i \in 1..Len(rec_call.fragments) :
            EndsWith(rec_call.fragments[i], tokenize["nuclear factor kappa b"]) )
    => rec_call.expansions = {"G1"}

\* C6: every longform of the grounding map is stored at exactly one node
\* of the recognition trie, and every stored longform is one of the map.
C6_OneToOne ==
    built =>
        /\ \A text \in Keys(grounding_map) :
              Cardinality({p \in DOMAIN rec_trie :
                              rec_trie[p].longform = Longform(text)}) = 1
        /\ \A p \in DOMAIN rec_trie :
              rec_trie[p].longform # None =>
                  rec_trie[p].longform.longform \in Keys(grounding_map)

\* the positions (from 0) at which a token list holds the defining pattern
TripleIndices(tokens, shortform) ==
    {index \in 0..(Len(tokens) - 3) :
        /\ tokens[index + 1] = "("
        /\ tokens[index + 2] = shortform
        /\ tokens[index + 3] = ")"}

\* C7: a sentence in which the extraction does not find the pattern yields
\* an empty candidate list, and consume does not raise.
C7_SilentSkip ==
    call.op = "consume" =>
        \A i \in 1..Len(call.sentences) :
            PatternIndices(call.sentences[i], MinerShortform) = {} =>
                /\ call.candidates[i] = Some(<< >>)
                /\ call.raised = "no"

\* C8: for every token list holding the pattern, also as its last three
\* tokens, the candidate is built from the tokens in front of the first
\* position of the pattern.
C8_FirstPattern ==
    call.op = "consume" =>
        \A i \in 1..Len(call.sentences) :
            LET found == TripleIndices(call.sentences[i], MinerShortform)
            IN found # {} =>
                  call.candidates[i] =
                      Some(Normalize(SubSeq(call.sentences[i], 1, Min(found)), exclude))

\* C9: after k >= 1 insertions of one candidate into an empty miner, the
\* nodes are those of a single insertion, and the node of the candidate has
\* count k and LH k times its length penalty.
C9_Reinsertion ==
    \A candidate \in BagToSet(inserted) :
        (candidate # << >> /\ BagToSet(inserted) = {candidate}) =>
            LET path == Path(candidate)
                k == CopiesIn(candidate, inserted)
            IN /\ DOMAIN trie = Prefixes(path)
               /\ trie[path].count = k
               /\ trie[path].LH = [pen |-> k * Log(Len(path)), num |-> 0, den |-> 1]

\* one candidate of two tokens inserted three times
C9_Witness ==
    \E candidate \in BagToSet(inserted) :
        /\ BagToSet(inserted) = {candidate}
        /\ CopiesIn(candidate, inserted) = 3
        /\ Len(candidate) = 2
        /\ trie[Path(candidate)].LH.pen = 3

\* the step is one call of _add on a candidate that was inserted before
Reinserts(path) ==
    /\ call.op = "idle"
    /\ call'.op \in {"_add", "consume"}
    /\ call'.raised = "no"
    /\ Len(call'.candidates) = 1
    /\ path = Path(call'.candidates[1].candidate)
    /\ path # << >>
    /\ \E candidate \in BagToSet(inserted) : Path(candidate) = path

\* C10 as stated: a re-insertion changes the count of no node but the one
\* of the candidate itself.
C10_OnlyExactCount ==
    [][\A path \in DOMAIN trie :
          Reinserts(path) =>
              \A p \in DOMAIN trie \ {path} : trie'[p].count = trie[p].count]_vars

\* C10 amended: a re-insertion adds one to the count of the node of the
\* candidate and of each of its shorter suffixes and changes no other node;
\* each shorter suffix has its dispersion statistics updated once, with the
\* new count of its child on the path, and the node of the candidate keeps
\* its own.
C10_PathCounts ==
    [][\A path \in DOMAIN trie :
          Reinserts(path) =>
              /\ DOMAIN trie' = DOMAIN trie
              /\ \A p \in DOMAIN trie :
                    IF p \in Prefixes(path)
                    THEN /\ trie'[p].count = trie[p].count + 1
                         /\ IF p = path
                            THEN /\ trie'[p].sum_ft = trie[p].sum_ft
                                 /\ trie'[p].sum_ft2 = trie[p].sum_ft2
                            ELSE LET c == trie'[SubSeq(path, 1, Len(p) + 1)].count
                                 IN /\ trie'[p].sum_ft = trie[p].sum_ft + 1
                                    /\ trie'[p].sum_ft2 = trie[p].sum_ft2 + 2 * c - 1
                    ELSE trie'[p] = trie[p]]_vars

\* a candidate of two tokens has just been inserted for the second time,
\* next to a node that is not on its path
C10_Witness ==
    /\ call.op = "_add"
    /\ call.raised = "no"
    /\ Len(call.candidates) = 1
    /\ ~call.candidates[1].none
    /\ Len(call.candidates[1].candidate) = 2
    /\ CopiesIn(call.candidates[1].candidate, inserted) = 2
    /\ DOMAIN trie # Prefixes(Path(call.candidates[1].candidate))

\* the table key of an entry of top: the stems of its words
EntryKey(entry) == StemAll(entry[1])

\* C11: top(limit) returns min(limit, N) of the N table entries, all N for
\* None and none when nothing was observed; the returned scores do not
\* increase; no entry left out has a score greater than a returned one.
C11_TopRanked ==
    call.op = "top" =>
        LET N == Cardinality(DOMAIN longforms)
            result == call.result
            returned == {EntryKey(result[i]) : i \in 1..Len(result)}
        IN /\ Len(result) = IF call.limit.none THEN N ELSE Min({call.limit.limit, N})
           /\ N = 0 => result = << >>
           /\ Cardinality(returned) = Len(result)
           /\ returned \subseteq DOMAIN longforms
           /\ \A i \in 1..Len(result) : result[i][2] = longforms[EntryKey(result[i])]
           /\ \A i \in 1..(Len(result) - 1) :
                 Compare(Len(result[i + 1][1]), result[i + 1][2],
                         Len(result[i][1]), result[i][2]) <= 0
           /\ \A out \in DOMAIN longforms \ returned : \A kept \in returned :
                 Compare(Len(out), longforms[out], Len(kept), longforms[kept]) <= 0

\* top(2) on a table of three or more entries, one of a lower score left out
C11_Witness ==
    /\ call.op = "top"
    /\ call.limit = Limit(2)
    /\ Cardinality(DOMAIN longforms) >= 3
    /\ Len(call.result) = 2
    /\ \E out \in DOMAIN longforms :
          Compare(Len(out), longforms[out],
                  Len(call.result[2][1]), call.result[2][2]) < 0

\* C12: when the import of the scorer failed, the constructor of
\* OneShotRecognizer raises, and no recognizer without a scorer is returned.
C12_FailsLoudly ==
    /\ (oneshot.called /\ ~oneshot.imported) =>
           (oneshot.raised # "no" /\ ~oneshot.returned)
    /\ oneshot.returned => oneshot.scorer

NormalizedPre(tokens) ==
    LET found == PatternIndices(tokens, MinerShortform)
    IN LowerAll(GreekAll(SelectSeq(SubSeq(tokens, 1, Min(found)), NotPunctuation)))

\* C14: the candidate of _get_candidates is the longest suffix without an
\* excluded token of the normalized tokens in front of the pattern: it
\* starts right after the last excluded token, is the whole list when there
\* is none, and is empty when the token next to the shortform is excluded.
C14_LongestCleanSuffix ==
    call.op = "consume" =>
        \A i \in 1..Len(call.sentences) :
            PatternIndices(call.sentences[i], MinerShortform) # {} =>
                LET pre == NormalizedPre(call.sentences[i])
                    n == Len(pre)
                    stops == {k \in 1..n : pre[k] \in exclude}
                IN /\ ~call.candidates[i].none
                   /\ LET candidate == call.candidates[i].candidate
                      IN /\ EndsWith(pre, candidate)
                         /\ \A k \in 1..Len(candidate) : candidate[k] \notin exclude
                         /\ Len(candidate) < n => pre[n - Len(candidate)] \in exclude
                         /\ stops = {} => candidate = pre
                         /\ (n > 0 /\ pre[n] \in exclude) => candidate = << >>

\* an excluded token in front of another token: the candidate is cut short
C14_Witness ==
    /\ call.op = "consume"
    /\ \E i \in 1..Len(call.sentences) :
          /\ PatternIndices(call.sentences[i], MinerShortform) # {}
          /\ Len(NormalizedPre(call.sentences[i])) = 2
          /\ NormalizedPre(call.sentences[i])[1] \in exclude
          /\ call.candidates[i] = Some(<<"receptors">>)

\* the children of a node of the mining trie
Children(p) ==
    {c \in DOMAIN trie : Len(c) = Len(p) + 1 /\ SubSeq(c, 1, Len(p)) = p}

RECURSIVE SumCounts(_)
SumCounts(nodes) ==
    IF nodes = {} THEN 0
    ELSE LET c == CHOOSE x \in nodes : TRUE
         IN trie[c].count + SumCounts(nodes \ {c})

RECURSIVE SumSquares(_)
SumSquares(nodes) ==
    IF nodes = {} THEN 0
    ELSE LET c == CHOOSE x \in nodes : TRUE
         IN trie[c].count * trie[c].count + SumSquares(nodes \ {c})

\* C15: the sum_ft of every node is the sum of the counts of its children
\* and its sum_ft2 is the sum of the squares of those counts.
C15_ChildSums ==
    \A p \in DOMAIN trie :
        /\ trie[p].sum_ft = SumCounts(Children(p))
        /\ trie[p].sum_ft2 = SumSquares(Children(p))

\* the step is one call of _add that runs update_likelihood on the node p:
\* p is on the path of the candidate, above its end, and its child on the
\* path was there already
Updates(p) ==
    /\ call.op = "idle"
    /\ call'.op = "_add"
    /\ call'.raised = "no"
    /\ LET path == Path(call'.candidates[1].candidate)
       IN /\ Len(p) < Len(path)
          /\ p = SubSeq(path, 1, Len(p))
          /\ SubSeq(path, 1, Len(p) + 1) \in DOMAIN trie

\* the LH of p when update_likelihood is entered, after increment_count
BeforeUpdate(p) == increment_count(trie[p]).LH

\* the count handed to update_likelihood: the new count of the child
UpdateCount(p) ==
    trie'[SubSeq(Path(call'.candidates[1].candidate), 1, Len(p) + 1)].count

\* C16 as stated: every dispersion update leaves the LH of the parent not
\* greater than it was immediately before the update.
C16_DecreasingCorrection ==
    [][\A p \in DOMAIN trie :
          Updates(p) =>
              Compare(Len(p), trie'[p].LH, Len(p), BeforeUpdate(p)) <= 0]_vars

\* C16 amended: a dispersion update leaves the LH of the parent not greater
\* than before exactly when sum_ft2 >= sum_ft * (2c - 1) held before it, c
\* being the new count of the child observed again; so the first update of
\* a parent lowers its LH, and an update with sum_ft2 < sum_ft * (2c - 1)
\* raises it.
C16_DirectionOfCorrection ==
    [][\A p \in DOMAIN trie :
          Updates(p) =>
              LET direction == Compare(Len(p), trie'[p].LH, Len(p), BeforeUpdate(p))
                  c == UpdateCount(p)
              IN /\ direction <= 0 <=> trie[p].sum_ft2 >= trie[p].sum_ft * (2 * c - 1)
                 /\ trie[p].sum_ft2 = 0 => direction < 0]_vars

\* the third insertion of a candidate of two tokens has raised the LH of
\* the parent from -1/3 to -1/4
C16_Witness ==
    /\ call.op = "_add"
    /\ \E candidate \in BagToSet(inserted) :
          /\ BagToSet(inserted) = {candidate}
          /\ CopiesIn(candidate, inserted) = 3
          /\ Len(candidate) = 2
          /\ trie[<<Path(candidate)[1]>>].sum_ft = 2
          /\ trie[<<Path(candidate)[1]>>].sum_ft2 = 8
          /\ trie[<<Path(candidate)[1]>>].LH = [pen |-> 0, num |-> 0 - 1, den |-> 4]

\* C17: no call of update_likelihood divides by zero: a sum_ft2 of zero
\* contributes nothing, the update is only run with a child count of two
\* or more, so that sum_ft2 is positive when the new ratio is computed, and
\* sum_ft2 never decreases.
C17_NoZeroDivision ==
    /\ [](/\ call.raised # "ZeroDivisionError"
          /\ \A p \in DOMAIN trie :
                /\ trie[p].sum_ft2 >= 0
                /\ trie[p].sum_ft2 = 0 => trie[p].LH.num = 0)
    /\ [][\A p \in DOMAIN trie :
             /\ trie'[p].sum_ft2 >= trie[p].sum_ft2
             /\ Updates(p) =>
                   /\ UpdateCount(p) >= 2
                   /\ ~update_raises(increment_count(trie[p]), UpdateCount(p))
                   /\ trie'[p].sum_ft2 >= trie[p].sum_ft2 + 3]_vars

\* the first update of a parent: sum_ft2 was zero and is three, with a
\* child of count two
C17_Witness ==
    /\ call.op = "_add"
    /\ call.raised = "no"
    /\ \E p \in DOMAIN trie :
          /\ p # Path(call.candidates[1].candidate)
          /\ p \in Prefixes(Path(call.candidates[1].candidate))
          /\ trie[p].sum_ft = 1
          /\ trie[p].sum_ft2 = 3
          /\ trie[p].LH.num = 0 - 1
          /\ trie[p].LH.den = 3

\* how many of the inserted candidates of a set have the path p as a prefix
\* of their path, that is the longform of p as a suffix
RECURSIVE Observations(_, _)
Observations(p, candidates) ==
    IF candidates = {} THEN 0
    ELSE LET c == CHOOSE x \in candidates : TRUE
             rest == Observations(p, candidates \ {c})
         IN IF Len(Path(c)) >= Len(p) /\ SubSeq(Path(c), 1, Len(p)) = p
            THEN CopiesIn(c, inserted) + rest
            ELSE rest

\* C18: the count of every node is the number of inserted candidates with
\* the longform of the node as a suffix; so every count is at least one
\* and the counts of the children of a node add up to at most its count.
C18_CountIsObservations ==
    \A p \in DOMAIN trie :
        /\ trie[p].count = Observations(p, BagToSet(inserted))
        /\ trie[p].count >= 1
        /\ SumCounts(Children(p)) <= trie[p].count

\* a node observed three times: once as the whole candidate, and once
\* under each of its two children
C18_Witness ==
    \E p \in DOMAIN trie :
        /\ trie[p].count = 3
        /\ Cardinality(Children(p)) = 2
        /\ SumCounts(Children(p)) = 2
        /\ Reverse(p) \in {StemAll(c) : c \in BagToSet(inserted)}

\* C19: for every longform of the grounding map, _search on the tokens of
\* that longform returns a longform, and recognize on a text whose
\* fragments are such token lists returns a non-empty set.
C19_OwnTokensFound ==
    /\ ( /\ rec_call.op = "_search"
         /\ \E text \in Keys(grounding_map) : rec_call.tokens = tokenize[text] )
       => rec_call.result # None
    /\ ( /\ rec_call.op = "recognize"
         /\ rec_call.fragments # << >>
         /\ \A i \in 1..Len(rec_call.fragments) :
               \E text \in Keys(grounding_map) :
                   rec_call.fragments[i] = tokenize[text] )
       => rec_call.expansions # {}

\* the word tokens among tokens[from:], from counted from 0
WordsFrom(tokens, from) == {k \in (from + 1)..Len(tokens) : IsWord(tokens[k])}

\* C20: strip_defining_patterns leaves a fragment without a longform as it
\* is; for a fragment with a longform of n words the walk ends without an
\* index outside the tokens of the fragment, and tokens[j+1:] starts at a
\* word token and holds exactly n word tokens.
C20_WalkInsideFragment ==
    rec_call.op = "strip_defining_patterns" =>
        \A i \in 1..Len(rec_call.strips) :
            LET strip == rec_call.strips[i]
                tokens == rec_call.fragments[i]
            IN IF strip.longform = None
               THEN strip.kept = tokens /\ strip.raised = "no"
               ELSE LET n == Len(split[strip.longform.longform])
                    IN /\ strip.raised = "no"
                       /\ strip.j + 1 >= 0
                       /\ strip.j + 1 < Len(tokens)
                       /\ IsWord(tokens[strip.j + 2])
                       /\ Cardinality(WordsFrom(tokens, strip.j + 1)) = n
                       /\ strip.kept = SubSeq(tokens, 1, strip.j + 1)

\* C21: for every fragment, strip_defining_patterns hands _search the
\* tokens that recognize hands it, those of get_candidate with the exclude
\* set of the recognizer, and it finds a longform to strip exactly when
\* recognize finds one.
C21_SameSearchInput ==
    rec_call.op = "strip_defining_patterns" =>
        \A i \in 1..Len(rec_call.strips) :
            LET recognized == get_candidate(rec_call.fragments[i], rec_exclude)
            IN /\ rec_call.searched[i] = recognized
               /\ rec_call.strips[i].longform # None
                      <=> (/\ rec_call.fragments[i] # << >>
                           /\ _search(rec_trie, recognized) # None)
====
